---- MODULE Spec2Model ----
(***************************************************************************)
(* The HTTP API of the chat backend (backend/main.py): seven handlers over *)
(* two tables, Conversation and Message, and one call to the LLM client.   *)
(*                                                                         *)
(* The handlers are plain `def` functions, which FastAPI runs on a thread  *)
(* pool: requests overlap.  Every request has a session of its own, so a   *)
(* handler is modelled as a sequence of atomic steps, one per round trip   *)
(* to the storage engine (a SELECT, or a flush and COMMIT) or to the LLM   *)
(* client; the steps of different requests interleave freely.  A SELECT    *)
(* sees what has been committed when it runs.                              *)
(*                                                                         *)
(* What the storage layer and the table definitions do is not in main.py.  *)
(* It is modelled as the specification describes it: identifiers are       *)
(* assigned by the engine, ascending, and are never assigned twice; a      *)
(* message carries a creation timestamp, strictly increasing from one      *)
(* stored message to the next; the tables are empty when the first request *)
(* arrives.  Whether the engine enforces the foreign key of a message to   *)
(* its conversation depends on the engine and on how it is configured: it  *)
(* is fixed when the process starts, and both cases are modelled.  Where it*)
(* is enforced, a commit that would leave a message without its            *)
(* conversation raises, and the transaction is rolled back.                *)
(***************************************************************************)
EXTENDS Integers, Sequences, FiniteSets, TLC

VARIABLES
    conversations,      \* table Conversation: id -> title (<<>> is NULL, <<t>> is the string t)
    messages,           \* table Message: a set of rows
    nextConversationId, \* the next identifier the engine assigns to a conversation
    nextMessageId,      \* the next identifier the engine assigns to a message
    clock,              \* the time source of Message.created_at
    foreignKeys,        \* whether the engine enforces Message.conversation_id
    req,                \* the requests being handled, one per worker thread
    started             \* how many requests have been received so far

vars ==
    <<conversations, messages, nextConversationId, nextMessageId, clock, foreignKeys,
      req, started>>

store == <<conversations, messages>>

(* The bound of the model: the number of requests received in a run. *)
MaxRequests == 4

(* The worker threads: two requests are handled at a time. *)
Workers == {1, 2}

(* Inputs of the requests. *)
NoTitle == <<>>
Titles == {NoTitle, <<"T">>}
Roles == {"user"}
Contents == {"hi"}
LlmTexts == {"reply"}
DefaultOffset == 0
DefaultLimit == 100
Offsets == {DefaultOffset, 1}
Limits == {DefaultLimit}

(* The ids a request can name: every id assigned so far, and one that never was. *)
ConversationIds == 1..nextConversationId

SystemInstruction ==
    [role |-> "system", content |-> "You are a helpful assistant for the DSTL Chat App."]

(***************************************************************************)
(* Pure helpers.                                                           *)
(***************************************************************************)
Min(a, b) == IF a < b THEN a ELSE b

(* A default title that counts conversations from zero. *)
DefaultTitleFromZero(id) == "Conversation " \o ToString(id - 1)

(* f"Conversation {db_conversation.id}" *)
DefaultTitle(id) == "Conversation " \o ToString(id)

(* `db_conversation.title is None` *)
TitleMissing(title) == title = NoTitle

(* A handler that goes on without the conversation. *)
NotFoundIgnored(conv) == FALSE

(* `if not conversation`, on what session.get returned (<<>> is None). *)
NotFound(conv) == conv = <<>>

(* A handler that builds its prompt from no history. *)
EmptyHistoryIgnored(history) == FALSE

(* `if not history` *)
EmptyHistory(history) == history = <<>>

(* session.get(Conversation, id): the row, or None. *)
GetConversation(id) ==
    IF id \in DOMAIN conversations
    THEN <<[id |-> id, title |-> conversations[id]]>>
    ELSE <<>>

(* ORDER BY created_at (ascending) over a set of message rows. *)
RECURSIVE OrderByCreatedAt(_)
OrderByCreatedAt(rows) ==
    IF rows = {} THEN <<>>
    ELSE LET first == CHOOSE m \in rows : \A n \in rows : m.created_at <= n.created_at
         IN  <<first>> \o OrderByCreatedAt(rows \ {first})

(* A query that leaves the WHERE clause out. *)
MessagesOfAny(conversation_id) == messages

(* WHERE Message.conversation_id == conversation_id *)
MessagesOf(conversation_id) == {m \in messages : m.conversation_id = conversation_id}

get_conversation_messages(conversation_id) == OrderByCreatedAt(MessagesOf(conversation_id))

(* The response models: from_orm keeps the fields the model declares. *)
ConversationRead(id, title) == [id |-> id, title |-> title]

MessageRead(m) ==
    [id |-> m.id, conversation_id |-> m.conversation_id, role |-> m.role, content |-> m.content]

MessageReads(rows) == [i \in 1..Len(rows) |-> MessageRead(rows[i])]

(* A prompt with the system instruction after the history. *)
LlmMessagesSystemLast(history) ==
    [i \in 1..Len(history) |-> [role |-> history[i].role, content |-> history[i].content]]
        \o <<SystemInstruction>>

(* The message list handed to the LLM client: the system instruction, then the history. *)
LlmMessages(history) ==
    <<SystemInstruction>>
        \o [i \in 1..Len(history) |-> [role |-> history[i].role, content |-> history[i].content]]

(* select(Conversation).offset(offset).limit(limit), in the engine's order (by id). *)
RECURSIVE OrderById(_)
OrderById(ids) ==
    IF ids = {} THEN <<>>
    ELSE LET first == CHOOSE i \in ids : \A j \in ids : i <= j
         IN  <<first>> \o OrderById(ids \ {first})

Page(rows, offset, limit) == SubSeq(rows, offset + 1, Min(Len(rows), offset + limit))

(* A new Message row as the engine stores it. *)
NewMessage(conversation_id, role, content) ==
    [id |-> nextMessageId, conversation_id |-> conversation_id,
     role |-> role, content |-> content, created_at |-> clock]

(***************************************************************************)
(* Requests.                                                               *)
(***************************************************************************)
Idle ==
    [op |-> "none", pc |-> "idle", cid |-> 0, title |-> NoTitle, conv |-> <<>>,
     loaded |-> <<>>, rowId |-> 0, text |-> "", status |-> 0, body |-> <<>>,
     wrote |-> FALSE, calls |-> <<>>]

(* The pool hands the next request to its first thread that is handling none. *)
Free(r) ==
    /\ req[r].pc \in {"idle", "done"}
    /\ \A s \in Workers : s < r => req[s].pc \notin {"idle", "done"}
    /\ started < MaxRequests

Begin(op, cid) == [Idle EXCEPT !.op = op, !.cid = cid]

(* The handler returns: FastAPI sends status and body. *)
Respond(q, status, body) ==
    [q EXCEPT !.pc = "done", !.status = status, !.body = body,
              !.conv = <<>>, !.loaded = <<>>, !.text = ""]

(* raise HTTPException(status_code, detail) *)
Raise(q, status, detail) == Respond(q, status, <<[detail |-> detail]>>)

(* An exception no handler catches: the server answers 500. *)
ServerError(q) == Raise(q, 500, "Internal Server Error")

(***************************************************************************)
(* POST /conversations/                                                    *)
(***************************************************************************)
(* Lines 87-89: insert the row under a fresh id and commit. *)
CreateConversation(r) ==
    /\ Free(r)
    /\ \E title \in Titles :
        /\ conversations' = conversations @@ (nextConversationId :> title)
        /\ nextConversationId' = nextConversationId + 1
        /\ req' = [req EXCEPT ![r] =
               [Begin("create_conversation", 0) EXCEPT
                   !.pc = "cc_refresh", !.title = title,
                   !.rowId = nextConversationId, !.wrote = TRUE]]
    /\ started' = started + 1
    /\ UNCHANGED <<messages, nextMessageId, clock, foreignKeys>>

(* Line 90, the test of line 93 and, with a title, line 99: refresh reads the
   row back and raises when it is gone. *)
CreateConversationRefresh(r) ==
    /\ req[r].pc = "cc_refresh"
    /\ LET q == req[r]
           row == GetConversation(q.rowId)
       IN  req' = [req EXCEPT ![r] =
               IF row = <<>> THEN ServerError(q)
               ELSE IF TitleMissing(row[1].title)
                    THEN [q EXCEPT !.pc = "cc_patch", !.conv = row]
                    ELSE Respond(q, 200, <<ConversationRead(row[1].id, row[1].title)>>)]
    /\ UNCHANGED <<conversations, messages, nextConversationId, nextMessageId, clock, started,
                   foreignKeys>>

(* Lines 94-96: UPDATE ... WHERE id = ? and commit; the flush raises when the
   statement matches no row. *)
CreateConversationPatch(r) ==
    /\ req[r].pc = "cc_patch"
    /\ LET q == req[r]
       IN  IF q.rowId \in DOMAIN conversations
           THEN /\ conversations' =
                       [conversations EXCEPT ![q.rowId] = <<DefaultTitle(q.conv[1].id)>>]
                /\ req' = [req EXCEPT ![r] = [q EXCEPT !.pc = "cc_return"]]
           ELSE /\ req' = [req EXCEPT ![r] = ServerError(q)]
                /\ UNCHANGED conversations
    /\ UNCHANGED <<messages, nextConversationId, nextMessageId, clock, started, foreignKeys>>

(* Lines 97-99: refresh, and return the row as read back. *)
CreateConversationReturn(r) ==
    /\ req[r].pc = "cc_return"
    /\ LET q == req[r]
           row == GetConversation(q.rowId)
       IN  req' = [req EXCEPT ![r] =
               IF row = <<>> THEN ServerError(q)
               ELSE Respond(q, 200, <<ConversationRead(row[1].id, row[1].title)>>)]
    /\ UNCHANGED <<conversations, messages, nextConversationId, nextMessageId, clock, started,
                   foreignKeys>>

(***************************************************************************)
(* GET /conversations/                                                     *)
(***************************************************************************)
ReadConversations(r) ==
    /\ Free(r)
    /\ \E offset \in Offsets, limit \in Limits :
        LET ids == Page(OrderById(DOMAIN conversations), offset, limit)
        IN  req' = [req EXCEPT ![r] =
                Respond(Begin("read_conversations", 0), 200,
                        [i \in 1..Len(ids) |-> ConversationRead(ids[i], conversations[ids[i]])])]
    /\ started' = started + 1
    /\ UNCHANGED <<conversations, messages, nextConversationId, nextMessageId, clock,
                   foreignKeys>>

(***************************************************************************)
(* GET /conversations/{conversation_id}                                    *)
(***************************************************************************)
(* Lines 116-118. *)
ReadConversation(r) ==
    /\ Free(r)
    /\ \E cid \in ConversationIds :
        LET q == Begin("read_conversation", cid)
            conv == GetConversation(cid)
        IN  req' = [req EXCEPT ![r] =
                IF NotFound(conv) THEN Raise(q, 404, "Conversation not found")
                ELSE [q EXCEPT !.pc = "rc_messages", !.conv = conv]]
    /\ started' = started + 1
    /\ UNCHANGED <<conversations, messages, nextConversationId, nextMessageId, clock,
                   foreignKeys>>

(* Lines 120-126. *)
ReadConversationMessages(r) ==
    /\ req[r].pc = "rc_messages"
    /\ LET q == req[r]
           rows == get_conversation_messages(q.cid)
       IN  req' = [req EXCEPT ![r] =
               Respond(q, 200, <<[id |-> q.conv[1].id, title |-> q.conv[1].title,
                                  messages |-> MessageReads(rows)]>>)]
    /\ UNCHANGED <<conversations, messages, nextConversationId, nextMessageId, clock, started,
                   foreignKeys>>

(***************************************************************************)
(* DELETE /conversations/{conversation_id}                                 *)
(***************************************************************************)
(* Lines 133-135. *)
DeleteConversation(r) ==
    /\ Free(r)
    /\ \E cid \in ConversationIds :
        LET q == Begin("delete_conversation", cid)
            conv == GetConversation(cid)
        IN  req' = [req EXCEPT ![r] =
                IF NotFound(conv) THEN Raise(q, 404, "Conversation not found")
                ELSE [q EXCEPT !.pc = "dc_messages", !.conv = conv]]
    /\ started' = started + 1
    /\ UNCHANGED <<conversations, messages, nextConversationId, nextMessageId, clock,
                   foreignKeys>>

(* Lines 138-140: the messages found now are the ones marked for deletion. *)
DeleteConversationMessages(r) ==
    /\ req[r].pc = "dc_messages"
    /\ req' = [req EXCEPT ![r] =
           [req[r] EXCEPT !.pc = "dc_commit", !.loaded = get_conversation_messages(req[r].cid)]]
    /\ UNCHANGED <<conversations, messages, nextConversationId, nextMessageId, clock, started,
                   foreignKeys>>

(* `for m in messages: session.delete(m)`: the ids of the rows marked. *)
Marked(loaded) == {loaded[i].id : i \in 1..Len(loaded)}

(* Lines 142-144: DELETE each marked message and the conversation by primary
   key, and commit; a DELETE that matches no row only warns.  Under foreign
   keys the commit raises when a message that was not marked names the
   conversation. *)
DeleteConversationCommit(r) ==
    /\ req[r].pc = "dc_commit"
    /\ LET q == req[r]
           marked == Marked(q.loaded)
       IN  IF foreignKeys /\ \E m \in MessagesOf(q.conv[1].id) : m.id \notin marked
           THEN /\ req' = [req EXCEPT ![r] = ServerError(q)]
                /\ UNCHANGED <<conversations, messages>>
           ELSE /\ messages' = {m \in messages : m.id \notin marked}
                /\ conversations' =
                       [i \in DOMAIN conversations \ {q.conv[1].id} |-> conversations[i]]
                /\ req' = [req EXCEPT ![r] =
                       Respond([q EXCEPT !.wrote = TRUE], 200, <<[ok |-> TRUE]>>)]
    /\ UNCHANGED <<nextConversationId, nextMessageId, clock, started, foreignKeys>>

(***************************************************************************)
(* GET /conversations/{conversation_id}/messages                           *)
(***************************************************************************)
(* Lines 154-156. *)
ReadMessagesForConversation(r) ==
    /\ Free(r)
    /\ \E cid \in ConversationIds :
        LET q == Begin("read_messages_for_conversation", cid)
            conv == GetConversation(cid)
        IN  req' = [req EXCEPT ![r] =
                IF NotFound(conv) THEN Raise(q, 404, "Conversation not found")
                ELSE [q EXCEPT !.pc = "rm_messages", !.conv = conv]]
    /\ started' = started + 1
    /\ UNCHANGED <<conversations, messages, nextConversationId, nextMessageId, clock,
                   foreignKeys>>

(* Lines 158-159. *)
ReadMessagesForConversationMessages(r) ==
    /\ req[r].pc = "rm_messages"
    /\ req' = [req EXCEPT ![r] =
           Respond(req[r], 200, MessageReads(get_conversation_messages(req[r].cid)))]
    /\ UNCHANGED <<conversations, messages, nextConversationId, nextMessageId, clock, started,
                   foreignKeys>>

(***************************************************************************)
(* POST /conversations/{conversation_id}/messages                          *)
(***************************************************************************)
(* Lines 170-172; role and content of the body are kept for the insert. *)
CreateMessageForConversation(r) ==
    /\ Free(r)
    /\ \E cid \in ConversationIds, role \in Roles, content \in Contents :
        LET q == [Begin("create_message_for_conversation", cid) EXCEPT
                      !.loaded = <<[role |-> role, content |-> content]>>]
            conv == GetConversation(cid)
        IN  req' = [req EXCEPT ![r] =
                IF NotFound(conv) THEN Raise(q, 404, "Conversation not found")
                ELSE [q EXCEPT !.pc = "cm_commit", !.conv = conv]]
    /\ started' = started + 1
    /\ UNCHANGED <<conversations, messages, nextConversationId, nextMessageId, clock,
                   foreignKeys>>

(* Lines 174-180: build the row, insert it and commit; under foreign keys the
   commit raises when the conversation is gone. *)
CreateMessageForConversationCommit(r) ==
    /\ req[r].pc = "cm_commit"
    /\ LET q == req[r]
           message == NewMessage(q.cid, q.loaded[1].role, q.loaded[1].content)
       IN  IF foreignKeys /\ q.cid \notin DOMAIN conversations
           THEN /\ req' = [req EXCEPT ![r] = ServerError(q)]
                /\ UNCHANGED <<messages, nextMessageId, clock>>
           ELSE /\ messages' = messages \cup {message}
                /\ req' = [req EXCEPT ![r] =
                       [q EXCEPT !.pc = "cm_return", !.rowId = message.id, !.wrote = TRUE]]
                /\ nextMessageId' = nextMessageId + 1
                /\ clock' = clock + 1
    /\ UNCHANGED <<conversations, nextConversationId, started, foreignKeys>>

(* Lines 181-182: refresh reads the row back and raises when it is gone. *)
CreateMessageForConversationReturn(r) ==
    /\ req[r].pc = "cm_return"
    /\ LET q == req[r]
           rows == {m \in messages : m.id = q.rowId}
       IN  req' = [req EXCEPT ![r] =
               IF rows = {} THEN ServerError(q)
               ELSE Respond(q, 200, <<MessageRead(CHOOSE m \in rows : TRUE)>>)]
    /\ UNCHANGED <<conversations, messages, nextConversationId, nextMessageId, clock, started,
                   foreignKeys>>

(***************************************************************************)
(* POST /conversations/{conversation_id}/llm_reply                         *)
(***************************************************************************)
(* Lines 192-194. *)
GenerateLlmReplyOn(r, cid) ==
    /\ Free(r)
    /\ LET q == Begin("generate_llm_reply", cid)
           conv == GetConversation(cid)
       IN  req' = [req EXCEPT ![r] =
               IF NotFound(conv) THEN Raise(q, 404, "Conversation not found")
               ELSE [q EXCEPT !.pc = "lr_history", !.conv = conv]]
    /\ started' = started + 1
    /\ UNCHANGED <<conversations, messages, nextConversationId, nextMessageId, clock,
                   foreignKeys>>

GenerateLlmReply(r) == \E cid \in ConversationIds : GenerateLlmReplyOn(r, cid)

(* Lines 197-203: load the history; none is a 400. *)
GenerateLlmReplyHistory(r) ==
    /\ req[r].pc = "lr_history"
    /\ LET q == req[r]
           history == get_conversation_messages(q.cid)
       IN  req' = [req EXCEPT ![r] =
               IF EmptyHistory(history)
               THEN Raise(q, 400, "No messages in conversation to build a prompt from.")
               ELSE [q EXCEPT !.pc = "lr_call", !.loaded = history]]
    /\ UNCHANGED <<conversations, messages, nextConversationId, nextMessageId, clock, started,
                   foreignKeys>>

(* A call that is made again when the client raises. *)
GenerateLlmReplyCallRetried(r) ==
    /\ req[r].pc = "lr_call"
    /\ LET once == [req[r] EXCEPT !.calls = Append(@, LlmMessages(req[r].loaded))]
           twice == [once EXCEPT !.calls = Append(@, LlmMessages(req[r].loaded))]
       IN  \E outcome \in LlmTexts \cup {"raise"} :
               req' = [req EXCEPT ![r] =
                   IF outcome = "raise" THEN Raise(twice, 500, "LLM call failed")
                   ELSE [once EXCEPT !.pc = "lr_commit", !.text = outcome]]
    /\ UNCHANGED <<conversations, messages, nextConversationId, nextMessageId, clock, started,
                   foreignKeys>>

(* Lines 206-223: build the prompt and call the client once; it returns a
   text or raises, and a raise becomes a 500. *)
GenerateLlmReplyCall(r) ==
    /\ req[r].pc = "lr_call"
    /\ LET q == [req[r] EXCEPT !.calls = Append(@, LlmMessages(req[r].loaded))]
       IN  \E outcome \in LlmTexts \cup {"raise"} :
               req' = [req EXCEPT ![r] =
                   IF outcome = "raise" THEN Raise(q, 500, "LLM call failed")
                   ELSE [q EXCEPT !.pc = "lr_commit", !.text = outcome]]
    /\ UNCHANGED <<conversations, messages, nextConversationId, nextMessageId, clock, started,
                   foreignKeys>>

(* A write that waits until the history is again the one that was loaded. *)
GenerateLlmReplyCommitIfUnchanged(r) ==
    /\ req[r].pc = "lr_commit"
    /\ get_conversation_messages(req[r].cid) = req[r].loaded
    /\ LET q == req[r]
           message == NewMessage(q.cid, "assistant", q.text)
       IN  /\ messages' = messages \cup {message}
           /\ req' = [req EXCEPT ![r] =
                  [q EXCEPT !.pc = "lr_return", !.rowId = message.id, !.wrote = TRUE]]
    /\ nextMessageId' = nextMessageId + 1
    /\ clock' = clock + 1
    /\ UNCHANGED <<conversations, nextConversationId, started, foreignKeys>>

(* Lines 226-232: insert the assistant message and commit; under foreign keys
   the commit raises when the conversation is gone. *)
GenerateLlmReplyCommit(r) ==
    /\ req[r].pc = "lr_commit"
    /\ LET q == req[r]
           message == NewMessage(q.cid, "assistant", q.text)
       IN  IF foreignKeys /\ q.cid \notin DOMAIN conversations
           THEN /\ req' = [req EXCEPT ![r] = ServerError(q)]
                /\ UNCHANGED <<messages, nextMessageId, clock>>
           ELSE /\ messages' = messages \cup {message}
                /\ req' = [req EXCEPT ![r] =
                       [q EXCEPT !.pc = "lr_return", !.rowId = message.id, !.wrote = TRUE]]
                /\ nextMessageId' = nextMessageId + 1
                /\ clock' = clock + 1
    /\ UNCHANGED <<conversations, nextConversationId, started, foreignKeys>>

(* Lines 233-236: refresh, and return the row as read back. *)
GenerateLlmReplyReturn(r) ==
    /\ req[r].pc = "lr_return"
    /\ LET q == req[r]
           rows == {m \in messages : m.id = q.rowId}
       IN  req' = [req EXCEPT ![r] =
               IF rows = {} THEN ServerError(q)
               ELSE Respond(q, 200, <<MessageRead(CHOOSE m \in rows : TRUE)>>)]
    /\ UNCHANGED <<conversations, messages, nextConversationId, nextMessageId, clock, started,
                   foreignKeys>>

Init ==
    /\ conversations = <<>>
    /\ messages = {}
    /\ nextConversationId = 1
    /\ nextMessageId = 1
    /\ clock = 1
    /\ foreignKeys \in BOOLEAN
    /\ req = [r \in Workers |-> Idle]
    /\ started = 0

Handle(r) ==
    \/ CreateConversation(r)
    \/ CreateConversationRefresh(r)
    \/ CreateConversationPatch(r)
    \/ CreateConversationReturn(r)
    \/ ReadConversations(r)
    \/ ReadConversation(r)
    \/ ReadConversationMessages(r)
    \/ DeleteConversation(r)
    \/ DeleteConversationMessages(r)
    \/ DeleteConversationCommit(r)
    \/ ReadMessagesForConversation(r)
    \/ ReadMessagesForConversationMessages(r)
    \/ CreateMessageForConversation(r)
    \/ CreateMessageForConversationCommit(r)
    \/ CreateMessageForConversationReturn(r)
    \/ GenerateLlmReply(r)
    \/ GenerateLlmReplyHistory(r)
    \/ GenerateLlmReplyCall(r)
    \/ GenerateLlmReplyCommit(r)
    \/ GenerateLlmReplyReturn(r)

Next == \E r \in Workers : Handle(r)

Spec == Init /\ [][Next]_vars

(***************************************************************************)
(* The properties.                                                         *)
(***************************************************************************)
Done(r) == req[r].pc = "done"

(* Worker r takes a request in this step. *)
Begins(r) == Free(r) /\ started' = started + 1

(* Worker r takes its step from position pc in this step. *)
Leaves(r, pc) == req[r].pc = pc /\ req'[r].pc # pc

ByConversationId ==
    {"read_conversation", "delete_conversation", "read_messages_for_conversation",
     "create_message_for_conversation", "generate_llm_reply"}

(* C1: a create_conversation that returns, returns the id assigned to its own
   row, with the supplied title or, when none was supplied, "Conversation
   {that id}"; the row, while it is in the store, holds that title; no two
   creations are given the same id. *)
C1_CreateTitle ==
    \A r \in Workers :
        (req[r].op = "create_conversation" /\ Done(r) /\ req[r].status = 200) =>
            LET b == req[r].body[1]
            IN  /\ Len(req[r].body) = 1
                /\ b.id = req[r].rowId
                /\ b.title = IF req[r].title = <<>>
                             THEN <<"Conversation " \o ToString(b.id)>>
                             ELSE req[r].title
                /\ b.id \in DOMAIN conversations => conversations[b.id] = b.title
                /\ \A s \in Workers \ {r} :
                       req[s].op = "create_conversation" => req[s].rowId # b.id

(* Two creations without a title overlap, and the one that inserted last has
   returned first. *)
C1_Witness ==
    \E r, s \in Workers :
        /\ req[r].op = "create_conversation" /\ Done(r) /\ req[r].status = 200
        /\ req[r].title = <<>>
        /\ req[s].op = "create_conversation" /\ req[s].pc = "cc_patch"
        /\ req[s].rowId < req[r].rowId

(* C3: a request that names a conversation id that is not in the store ends
   with 404 at once, whichever of the five handlers it is: the store is
   unchanged, nothing is written and the LLM client is not called. *)
C3_MissingIs404 ==
    [][\A r \in Workers :
          (/\ Begins(r)
           /\ req'[r].op \in ByConversationId
           /\ req'[r].cid \notin DOMAIN conversations) =>
              /\ req'[r].pc = "done"
              /\ req'[r].status = 404
              /\ req'[r].body = <<[detail |-> "Conversation not found"]>>
              /\ ~req'[r].wrote
              /\ req'[r].calls = <<>>
              /\ conversations' = conversations
              /\ messages' = messages]_vars

(* A reply request for a conversation that was deleted has ended with 404. *)
C3_Witness ==
    \E r \in Workers :
        /\ req[r].op = "generate_llm_reply" /\ Done(r) /\ req[r].status = 404
        /\ req[r].cid < nextConversationId
        /\ req[r].cid \notin DOMAIN conversations

(* C4: a reply request that finds no message of its conversation ends with
   400: the LLM client is not called and the store is unchanged. *)
C4_EmptyHistoryIs400 ==
    [][\A r \in Workers :
          (/\ Leaves(r, "lr_history")
           /\ \A m \in messages : m.conversation_id # req[r].cid) =>
              /\ req'[r].pc = "done"
              /\ req'[r].status = 400
              /\ req'[r].calls = <<>>
              /\ ~req'[r].wrote
              /\ conversations' = conversations
              /\ messages' = messages]_vars

(* A reply request on a stored conversation without messages has ended with 400. *)
C4_Witness ==
    \E r \in Workers :
        /\ req[r].op = "generate_llm_reply" /\ Done(r) /\ req[r].status = 400
        /\ req[r].cid \in DOMAIN conversations
        /\ \A m \in messages : m.conversation_id # req[r].cid

(* C2: a commit of delete_conversation that answers {ok: true} leaves every
   conversation and message of another id as it was; once a
   delete_conversation has returned {ok: true}, the store holds neither the
   conversation nor any message of that id, and every later request by that
   id ends with 404. *)
C2_DeletedLeavesNothing ==
    [][\A r \in Workers :
          /\ (Leaves(r, "dc_commit") /\ req'[r].status = 200) =>
                /\ req'[r].pc = "done"
                /\ req'[r].body = <<[ok |-> TRUE]>>
                /\ \A id \in DOMAIN conversations \ {req[r].cid} :
                       id \in DOMAIN conversations' /\ conversations'[id] = conversations[id]
                /\ \A m \in messages : m.conversation_id # req[r].cid => m \in messages'
                /\ messages' \subseteq messages
          /\ (req'[r].op = "delete_conversation" /\ req'[r].pc = "done"
                  /\ req'[r].status = 200) =>
                /\ req'[r].cid \notin DOMAIN conversations'
                /\ \A m \in messages' : m.conversation_id # req'[r].cid
          /\ (/\ Begins(r)
              /\ req'[r].op \in ByConversationId
              /\ \E s \in Workers :
                     /\ req[s].op = "delete_conversation" /\ Done(s)
                     /\ req[s].status = 200 /\ req[s].cid = req'[r].cid) =>
                (req'[r].pc = "done" /\ req'[r].status = 404)]_vars

IsLlmFailure(q) == q.body = <<[detail |-> "LLM call failed"]>>

(* What the request of worker r has written is in the store. *)
OwnRowStored(r) ==
    \/ req[r].op = "create_conversation" /\ req[r].rowId \in DOMAIN conversations
    \/ /\ req[r].op \in {"create_message_for_conversation", "generate_llm_reply"}
       /\ \E m \in messages : m.id = req[r].rowId

(* C5: when the LLM client raises, the request ends at once with 500 "LLM
   call failed", having called the client once and written nothing; no
   request calls the client twice; the store changes only in the insert of
   create_conversation and in the commits that follow every check and the
   LLM call of their handler; a request that has ended with 404, 400 or that
   500 has written nothing, and no request that has ended with an error has
   a row of its own in the store. *)
C5_FailureWritesNothing ==
    [][\A r \in Workers :
          /\ (Leaves(r, "lr_call") /\ req'[r].pc = "done") =>
                /\ req'[r].status = 500
                /\ IsLlmFailure(req'[r])
                /\ Len(req'[r].calls) = 1
                /\ ~req'[r].wrote
                /\ conversations' = conversations
                /\ messages' = messages
          /\ Len(req'[r].calls) <= 1
          /\ (req'[r].pc = "done"
                  /\ (req'[r].status \in {400, 404} \/ IsLlmFailure(req'[r]))) =>
                ~req'[r].wrote
          /\ (req'[r].pc = "done" /\ req'[r].status \in {400, 404, 500}) =>
                ~OwnRowStored(r)'
          /\ (req'[r] # req[r] /\ (conversations' # conversations \/ messages' # messages)) =>
                \/ Begins(r) /\ req'[r].op = "create_conversation"
                \/ Leaves(r, "cc_patch")
                \/ Leaves(r, "dc_commit")
                \/ Leaves(r, "cm_commit")
                \/ Leaves(r, "lr_commit")]_vars

(* A reply request has ended with 500 "LLM call failed". *)
C5_Witness ==
    \E r \in Workers :
        /\ req[r].op = "generate_llm_reply" /\ Done(r) /\ req[r].status = 500
        /\ IsLlmFailure(req[r])
        /\ Len(req[r].calls) = 1

(* The rows of conversation cid among msgs, each once, by ascending created_at. *)
IsHistoryOf(rows, cid, msgs) ==
    /\ Len(rows) = Cardinality({m \in msgs : m.conversation_id = cid})
    /\ \A i \in 1..Len(rows) : rows[i] \in msgs /\ rows[i].conversation_id = cid
    /\ \A i, j \in 1..Len(rows) : i < j => rows[i].created_at < rows[j].created_at

(* The same of a list of MessageRead: what it shows of each row, in that order. *)
IsMessageListOf(list, cid, msgs) ==
    \E rows \in [1..Len(list) -> msgs] :
        /\ IsHistoryOf(rows, cid, msgs)
        /\ \A i \in 1..Len(list) :
               list[i] = [id |-> rows[i].id, conversation_id |-> rows[i].conversation_id,
                          role |-> rows[i].role, content |-> rows[i].content]

(* C6: a reply request loads the full history of its conversation in
   chronological order; it calls the LLM client once, with the system
   instruction first and then the role and content of each message of that
   history; its commit, on a conversation that is in the store (or under an
   engine that does not enforce the foreign key), adds exactly one message, with role "assistant", the text the client returned and the
   requested conversation id, and changes no other row; the message it
   returns with 200 is that stored message. *)
C6_ReplyStoresAssistantMessage ==
    [][\A r \in Workers :
          /\ (Leaves(r, "lr_history") /\ req'[r].pc = "lr_call") =>
                /\ req'[r].loaded # <<>>
                /\ IsHistoryOf(req'[r].loaded, req[r].cid, messages)
          /\ (Leaves(r, "lr_call") /\ req'[r].pc = "lr_commit") =>
                /\ Len(req'[r].calls) = 1
                /\ Len(req'[r].calls[1]) = Len(req[r].loaded) + 1
                /\ req'[r].calls[1][1] =
                       [role |-> "system",
                        content |-> "You are a helpful assistant for the DSTL Chat App."]
                /\ \A i \in 1..Len(req[r].loaded) :
                       req'[r].calls[1][i + 1] =
                           [role |-> req[r].loaded[i].role,
                            content |-> req[r].loaded[i].content]
                /\ req'[r].text \in LlmTexts
                /\ conversations' = conversations /\ messages' = messages
          /\ (Leaves(r, "lr_commit")
                  /\ (req[r].cid \in DOMAIN conversations \/ ~foreignKeys)) =>
                /\ req'[r].pc = "lr_return"
                /\ conversations' = conversations
                /\ \E m \in messages' :
                       /\ m \notin messages
                       /\ messages' = messages \cup {m}
                       /\ \A n \in messages : n.id # m.id
                       /\ m.id = req'[r].rowId
                       /\ m.role = "assistant"
                       /\ m.content = req[r].text
                       /\ m.conversation_id = req[r].cid
          /\ (Leaves(r, "lr_return") /\ req'[r].status = 200) =>
                /\ req'[r].pc = "done"
                /\ Len(req'[r].calls) = 1
                /\ conversations' = conversations /\ messages' = messages
                /\ req'[r].body = <<[id |-> req[r].rowId, conversation_id |-> req[r].cid,
                                     role |-> "assistant", content |-> req[r].text]>>
                /\ \E m \in messages :
                       /\ m.id = req[r].rowId /\ m.conversation_id = req[r].cid
                       /\ m.role = "assistant" /\ m.content = req[r].text]_vars

(* A reply request has returned the assistant message with 200, and the
   conversation holds the user message and, after it, that message. *)
C6_Witness ==
    \E r \in Workers :
        /\ req[r].op = "generate_llm_reply" /\ Done(r) /\ req[r].status = 200
        /\ req[r].body[1].role = "assistant"
        /\ \E u, a \in messages :
               /\ {m \in messages : m.conversation_id = req[r].cid} = {u, a}
               /\ u.role = "user" /\ a.id = req[r].body[1].id
               /\ u.created_at < a.created_at

(* C7: the list that read_conversation and read_messages_for_conversation
   return holds exactly the stored messages of that conversation id, each
   once, in strictly ascending order of creation time; a message is stored
   with a creation time later than that of every message stored before it. *)
C7_ListsAreChronological ==
    [][\A r \in Workers :
          /\ Leaves(r, "rc_messages") =>
                /\ req'[r].pc = "done" /\ req'[r].status = 200
                /\ Len(req'[r].body) = 1
                /\ req'[r].body[1].id = req[r].cid
                /\ IsMessageListOf(req'[r].body[1].messages, req[r].cid, messages)
          /\ Leaves(r, "rm_messages") =>
                /\ req'[r].pc = "done" /\ req'[r].status = 200
                /\ IsMessageListOf(req'[r].body, req[r].cid, messages)
          /\ \A m \in messages' \ messages :
                 \A n \in messages : n.created_at < m.created_at]_vars

(* read_conversation has returned the two messages of its conversation, the
   older first. *)
C7_Witness ==
    \E r \in Workers :
        /\ req[r].op = "read_conversation" /\ Done(r) /\ req[r].status = 200
        /\ Len(req[r].body[1].messages) = 2
        /\ req[r].body[1].messages[1].id < req[r].body[1].messages[2].id
        /\ Cardinality({m \in messages : m.conversation_id = req[r].cid}) = 2

(* C8: nothing serialises the reply requests of a conversation: while one
   holds a loaded history and has not yet written, a worker that is free can
   take another reply request for the same conversation, and the write of a
   request that has its text goes ahead whatever has been stored since it
   loaded its history. *)
C8_NoReplyLock ==
    \A r \in Workers :
        /\ req[r].pc \in {"lr_call", "lr_commit"} =>
               \A s \in Workers \ {r} : Free(s) => ENABLED GenerateLlmReplyOn(s, req[r].cid)
        /\ req[r].pc = "lr_commit" => ENABLED GenerateLlmReplyCommit(r)

(* Two reply requests for one conversation have both returned 200; each sent
   the same history, which held neither reply, and the two assistant messages
   are the last two of the conversation. *)
C8_Witness ==
    \E r, s \in Workers :
        /\ r # s
        /\ req[r].op = "generate_llm_reply" /\ Done(r) /\ req[r].status = 200
        /\ req[s].op = "generate_llm_reply" /\ Done(s) /\ req[s].status = 200
        /\ req[r].cid = req[s].cid
        /\ req[r].calls = req[s].calls
        /\ LET history == get_conversation_messages(req[r].cid)
               n == Len(history)
           IN  /\ n = Len(req[r].calls[1]) + 1
               /\ {history[n - 1].id, history[n].id} = {req[r].rowId, req[s].rowId}
               /\ history[n - 1].role = "assistant" /\ history[n].role = "assistant"

(* C9: every stored message names a conversation that is in the store. *)
C9_NoOrphanMessage ==
    \A m \in messages : m.conversation_id \in DOMAIN conversations

(* C10: no read_conversations or read_conversation returns a conversation
   with a null title, and no create_conversation fails or finds its row
   re-created. *)
C10_CreationIsAtomic ==
    \A r \in Workers :
        /\ (req[r].op = "read_conversations" /\ Done(r)) =>
               \A i \in 1..Len(req[r].body) : req[r].body[i].title # <<>>
        /\ (req[r].op = "read_conversation" /\ Done(r) /\ req[r].status = 200) =>
               req[r].body[1].title # <<>>
        /\ (req[r].op = "create_conversation" /\ Done(r)) => req[r].status = 200
====
